---- MODULE Spec2Model ----
(***************************************************************************)
(* A model of adjust_wav_volume.py: the RIFF/WAVE chunk reader and writer, *)
(* the gain transform of reduce_volume, and the batch loop of              *)
(* process_wav_files_in_directory.                                         *)
(*                                                                         *)
(* Bytes are integers 0..255 and a buffer is a sequence of bytes.  A       *)
(* Python str is a sequence of code points.  A float32 is a record         *)
(* [m, e] standing for m * 2^e (m odd, or m = 0 and e = 0), so that        *)
(* values up to 2^33 are held without leaving the 32-bit integers of the   *)
(* model checker.                                                          *)
(***************************************************************************)
EXTENDS Integers, Sequences, FiniteSets, TLC

(***************************************************************************)
(* Bounds of the model.                                                    *)
(***************************************************************************)
\* Longest 'data' payload of the sample-oriented input files.
MaxDataLen == 4
\* Most chunks of the structure-oriented input files.
MaxChunks == 2
\* Most files of a batch drawn from the small file set.
MaxFiles == 2
\* Largest dB amount typed, in steps of 20*log10(2) dB.
MaxDbSteps == 2

(***************************************************************************)
(* Bytes, strings and integers.                                            *)
(***************************************************************************)
RIFF == <<82, 73, 70, 70>>
WAVE == <<87, 65, 86, 69>>
DATA == <<100, 97, 116, 97>>
FMT == <<102, 109, 116, 32>>
SMPL == <<115, 109, 112, 108>>

\* data[a:b] of Python: the bytes at 0-based offsets a..b-1, cut at the end.
Slice(data, a, b) ==
  LET hi == IF b < Len(data) THEN b ELSE Len(data)
  IN  IF a >= hi THEN <<>> ELSE [i \in 1..(hi - a) |-> data[a + i]]

\* bytes.decode('ascii'): fails on a byte above 127.
DecodeAsciiStrict(b) ==
  IF \E i \in 1..Len(b) : b[i] >= 128
  THEN [ok |-> FALSE, str |-> <<>>]
  ELSE [ok |-> TRUE, str |-> b]

\* bytes.decode('ascii', errors="replace"): a byte above 127 becomes U+FFFD.
DecodeAsciiReplace(b) == [i \in 1..Len(b) |-> IF b[i] < 128 THEN b[i] ELSE 65533]

\* str.encode('ascii') succeeds only on code points below 128.
CanEncodeAscii(s) == \A i \in 1..Len(s) : s[i] < 128

\* struct.unpack('<I', b)[0] for a value below 2^31.
UnpackU32(b) == b[1] + 256 * b[2] + 65536 * b[3] + 16777216 * b[4]

\* struct.pack('<I', n) for 0 <= n < 2^31.
PackU32(n) ==
  <<n % 256, (n \div 256) % 256, (n \div 65536) % 256, (n \div 16777216) % 256>>

(***************************************************************************)
(* The chunk dictionary: a Python dict keeps the position of a key's first *)
(* insertion and the value of its last.                                    *)
(***************************************************************************)
HasKey(chunks, k) == \E i \in 1..Len(chunks) : chunks[i].id = k

GetItem(chunks, k) ==
  chunks[CHOOSE i \in 1..Len(chunks) : chunks[i].id = k].data

SetItem(chunks, k, v) ==
  IF HasKey(chunks, k)
  THEN [i \in 1..Len(chunks) |->
          IF chunks[i].id = k THEN [id |-> k, data |-> v] ELSE chunks[i]]
  ELSE Append(chunks, [id |-> k, data |-> v])

(***************************************************************************)
(* read_wav_chunks                                                         *)
(***************************************************************************)
\* The while loop of read_wav_chunks from offset pos with the dict so far.
\* A chunk size of 2^24 or more (a nonzero top byte) ends past every buffer
\* of the model, so the size is only computed when the top byte is zero.
\* ReadLoop without the test of line 30: a chunk whose declared length runs
\* past the end is stored with the bytes that remain.
RECURSIVE ReadLoopNoEofCheck(_, _, _)
ReadLoopNoEofCheck(data, pos, chunks) ==
  IF pos + 8 > Len(data) THEN chunks
  ELSE
    LET chunk_id == DecodeAsciiReplace(Slice(data, pos, pos + 4))
        szb == Slice(data, pos + 4, pos + 8)
        chunk_size == UnpackU32(<<szb[1], szb[2], szb[3], 0>>)
        start == pos + 8
        end == start + chunk_size
    IN  IF szb[4] # 0 THEN chunks
        ELSE ReadLoopNoEofCheck(data,
                                IF chunk_size % 2 = 1 THEN end + 1 ELSE end,
                                SetItem(chunks, chunk_id, Slice(data, start, end)))

RECURSIVE ReadLoop(_, _, _)
ReadLoop(data, pos, chunks) ==
  IF pos + 8 > Len(data) THEN chunks
  ELSE
    LET chunk_id == DecodeAsciiReplace(Slice(data, pos, pos + 4))
        szb == Slice(data, pos + 4, pos + 8)
        chunk_size == UnpackU32(<<szb[1], szb[2], szb[3], 0>>)
        start == pos + 8
        end == start + chunk_size
    IN  IF szb[4] # 0 \/ end > Len(data) THEN chunks
        ELSE ReadLoop(data,
                      IF chunk_size % 2 = 1 THEN end + 1 ELSE end,
                      SetItem(chunks, chunk_id, Slice(data, start, end)))

\* read_wav_chunks on the bytes of a file of at least 12 bytes.
read_wav_chunks(data) ==
  LET riff == DecodeAsciiStrict(Slice(data, 0, 4))
      wave_header == DecodeAsciiStrict(Slice(data, 8, 12))
      file_size == UnpackU32(Slice(data, 4, 8))
  IN  IF ~riff.ok THEN [err |-> "UnicodeDecodeError", chunks |-> <<>>, file_size |-> 0]
      ELSE IF riff.str # RIFF
        THEN [err |-> "NotRIFF", chunks |-> <<>>, file_size |-> 0]
      ELSE IF ~wave_header.ok
        THEN [err |-> "UnicodeDecodeError", chunks |-> <<>>, file_size |-> 0]
      ELSE IF wave_header.str # WAVE
        THEN [err |-> "NotWAVE", chunks |-> <<>>, file_size |-> 0]
      ELSE [err |-> "none", chunks |-> ReadLoop(data, 12, <<>>),
            file_size |-> file_size]

(***************************************************************************)
(* write_wav_chunks                                                        *)
(***************************************************************************)
\* The for loop of write_wav_chunks from item i, with the bytes written so
\* far: encoding an identifier that holds U+FFFD raises, and what was
\* written before stays in the file.
RECURSIVE WriteLoop(_, _, _)
WriteLoop(chunks, i, written) ==
  IF i > Len(chunks) THEN [err |-> "none", bytes |-> written]
  ELSE IF ~CanEncodeAscii(chunks[i].id)
    THEN [err |-> "UnicodeEncodeError", bytes |-> written]
  ELSE WriteLoop(chunks, i + 1,
                 written \o chunks[i].id \o PackU32(Len(chunks[i].data))
                         \o chunks[i].data)

write_wav_chunks(chunks, original_size) ==
  WriteLoop(chunks, 1, RIFF \o PackU32(original_size) \o WAVE)

(***************************************************************************)
(* float32 values, as [m, e] for m * 2^e.                                  *)
(***************************************************************************)
MinInt32 == -2147483647 - 1
MaxInt32 == 2147483647

RECURSIVE Norm(_, _)
Norm(m, e) ==
  IF m = 0 THEN [m |-> 0, e |-> 0]
  ELSE IF m % 2 = 0 THEN Norm(m \div 2, e + 1)
  ELSE [m |-> m, e |-> e]

\* floor(n / 2^d); 2^d is only computed below 2^31.
FloorDivPow2(n, d) ==
  IF d >= 31 THEN (IF n < 0 THEN -1 ELSE 0) ELSE n \div (2 ^ d)

\* x < y
Less(x, y) ==
  IF x.e <= y.e
  THEN FloorDivPow2(x.m, y.e - x.e) < y.m
  ELSE x.m < -FloorDivPow2(-y.m, x.e - y.e)

\* ndarray.astype(np.float32) of one integer of at most 32 bits: round to
\* nearest, ties to even, on a 24-bit significand.
ToFloat32(i) ==
  IF i = MinInt32 THEN [m |-> -1, e |-> 31]
  ELSE
    LET a == IF i < 0 THEN -i ELSE i
    IN  IF a < 16777216 THEN Norm(i, 0)
        ELSE
          LET s == CHOOSE k \in 1..7 : a \div (2 ^ k) < 16777216
                                       /\ a \div (2 ^ k) >= 8388608
              q == a \div (2 ^ s)
              r == a % (2 ^ s)
              h == 2 ^ (s - 1)
              up == IF r > h \/ (r = h /\ q % 2 = 1) THEN q + 1 ELSE q
          IN  Norm(IF i < 0 THEN -up ELSE up, s)

\* 10 ** (db_change / 20) as it enters the float32 product.  A dB value is
\* counted in steps of 20*log10(2) = 6.020599913279624 dB, for which the
\* power is 2 ** steps once rounded to float32.
volume_change_factor(db_change) == [m |-> 1, e |-> db_change]

\* audio_data *= volume_change_factor: exact for a power-of-two factor.
Mul(x, f) == Norm(x.m * f.m, x.e + f.e)

\* max_val and min_val of reduce_volume (2^(8w-1) is split to stay in range).
max_val(sampwidth) == (2 ^ (8 * sampwidth - 2) - 1) + 2 ^ (8 * sampwidth - 2)
min_val(sampwidth) == -max_val(sampwidth) - 1

\* np.clip(audio_data, min_val, max_val) on a float32 array: the integer
\* limits are converted to float32 (2^31 - 1 becomes 2^31).
Clip(x, sampwidth) ==
  LET lo == ToFloat32(min_val(sampwidth))
      hi == ToFloat32(max_val(sampwidth))
      a == IF Less(x, lo) THEN lo ELSE x
  IN  IF Less(hi, a) THEN hi ELSE a

RECURSIVE ShiftLeft(_, _)
ShiftLeft(m, e) == IF e = 0 THEN m ELSE ShiftLeft(2 * m, e - 1)

\* The integer part of a float32 that lies within the int32 range.
Trunc(x) ==
  IF x.e >= 0 THEN ShiftLeft(x.m, x.e)
  ELSE IF x.m >= 0 THEN FloorDivPow2(x.m, -x.e)
  ELSE -FloorDivPow2(-x.m, -x.e)

\* The outcomes of a float-to-integer cast whose value the target type
\* cannot hold: the low bits of the conversion to a wider integer ("wrap",
\* x86) or the nearest limit of the target type ("saturate", AArch64).
CastOutcomes == {"wrap", "saturate"}

\* audio_data.astype(dtype) of one clipped value; dtype is np.uint8, np.int16
\* or np.int32 for sampwidth 1, 2 or 4.
AsType(x, sampwidth, ub) ==
  IF sampwidth = 4
  THEN IF ~Less(x, [m |-> 1, e |-> 31])
       THEN (IF ub = "wrap" THEN MinInt32 ELSE MaxInt32)
       ELSE Trunc(x)
  ELSE IF sampwidth = 2 THEN Trunc(x)
  ELSE LET t == Trunc(x)
       IN  IF t >= 0 THEN t
           ELSE IF ub = "wrap" THEN t + 256 ELSE 0

\* np.frombuffer(audio_frames, dtype)[i] widened to an integer.
FromBuffer(b, sampwidth) ==
  [i \in 1..(Len(b) \div sampwidth) |->
     LET o == (i - 1) * sampwidth
     IN  IF sampwidth = 1 THEN b[o + 1]
         ELSE IF sampwidth = 2
           THEN b[o + 1] + 256 * (IF b[o + 2] >= 128 THEN b[o + 2] - 256 ELSE b[o + 2])
         ELSE b[o + 1] + 256 * b[o + 2] + 65536 * b[o + 3]
              + 16777216 * (IF b[o + 4] >= 128 THEN b[o + 4] - 256 ELSE b[o + 4])]

\* One element through lines 84-111: to float32, centre, scale, clip, cast,
\* and centre back (uint8 addition wraps).
ProcessSample(s, sampwidth, db_change, ub) ==
  LET f == ToFloat32(s)
      centred == IF sampwidth = 1 THEN ToFloat32(s - 128) ELSE f
      scaled == Mul(centred, volume_change_factor(db_change))
      cast == AsType(Clip(scaled, sampwidth), sampwidth, ub)
  IN  IF sampwidth = 1 THEN (cast + 128) % 256 ELSE cast

\* ndarray.tobytes() of one element, little-endian two's complement.
SampleBytes(v, sampwidth) ==
  IF sampwidth = 1 THEN <<v>>
  ELSE IF sampwidth = 2 THEN <<v % 256, (v \div 256) % 256>>
  ELSE <<v % 256, (v \div 256) % 256, (v \div 65536) % 256,
         (v \div 16777216) % 256>>

RECURSIVE ToBytes(_, _)
ToBytes(samples, sampwidth) ==
  IF samples = <<>> THEN <<>>
  ELSE SampleBytes(Head(samples), sampwidth) \o ToBytes(Tail(samples), sampwidth)

\* Lines 81-112: the new frames for a supported sample width.
NewFrames(audio_frames, sampwidth, db_change, ub) ==
  LET audio_data == FromBuffer(audio_frames, sampwidth)
  IN  ToBytes([i \in 1..Len(audio_data) |->
                 ProcessSample(audio_data[i], sampwidth, db_change, ub)],
              sampwidth)

(***************************************************************************)
(* reduce_volume                                                           *)
(***************************************************************************)
\* The result of one call: the exception that ended it ("none": it
\* returned), the chunk dict as the call left it, whether the output file
\* was opened for writing, and the bytes that reached it.  sampwidth is
\* what wave.open reports for the file (0: wave.open raised).
Failed(err, chunks) ==
  [err |-> err, chunks |-> chunks, opened |-> FALSE, bytes |-> <<>>]

\* reduce_volume with the sample width examined before the 'data' chunk is
\* looked up.
reduce_volume_width_first(data, sampwidth, db_change, ub) ==
  LET rd == read_wav_chunks(data)
      chunks == rd.chunks
      original_size == rd.file_size
  IN  IF rd.err # "none" THEN Failed(rd.err, <<>>)
      ELSE IF sampwidth = 0 THEN Failed("WaveError", chunks)
      ELSE IF sampwidth \notin {1, 2, 4} THEN Failed("UnsupportedWidth", chunks)
      ELSE IF ~HasKey(chunks, DATA) THEN Failed("MissingData", chunks)
      ELSE IF Len(GetItem(chunks, DATA)) % sampwidth # 0
        THEN Failed("BufferSize", chunks)
      ELSE
        LET new_frames == NewFrames(GetItem(chunks, DATA), sampwidth, db_change, ub)
            replaced == SetItem(chunks, DATA, new_frames)
            new_size == original_size - Len(GetItem(replaced, DATA)) + Len(new_frames)
            wr == write_wav_chunks(replaced, new_size)
        IN  [err |-> wr.err, chunks |-> replaced, opened |-> TRUE,
             bytes |-> wr.bytes]

reduce_volume(data, sampwidth, db_change, ub) ==
  LET rd == read_wav_chunks(data)
      chunks == rd.chunks
      original_size == rd.file_size
  IN  IF rd.err # "none" THEN Failed(rd.err, <<>>)
      ELSE IF ~HasKey(chunks, DATA) THEN Failed("MissingData", chunks)
      ELSE IF sampwidth = 0 THEN Failed("WaveError", chunks)
      ELSE IF sampwidth \notin {1, 2, 4} THEN Failed("UnsupportedWidth", chunks)
      ELSE IF Len(GetItem(chunks, DATA)) % sampwidth # 0
        THEN Failed("BufferSize", chunks)
      ELSE
        LET new_frames == NewFrames(GetItem(chunks, DATA), sampwidth, db_change, ub)
            replaced == SetItem(chunks, DATA, new_frames)
            new_size == original_size - Len(GetItem(replaced, DATA)) + Len(new_frames)
            wr == write_wav_chunks(replaced, new_size)
        IN  [err |-> wr.err, chunks |-> replaced, opened |-> TRUE,
             bytes |-> wr.bytes]

(***************************************************************************)
(* The .wav files of the directory.  A file is described by its tags, its  *)
(* chunks as laid out on disk (pad: a pad byte follows the payload), the   *)
(* bytes after the last chunk, the error of its declared size, and the     *)
(* sample width wave.open reports for it (0: wave.open raises).            *)
(***************************************************************************)
RawChunk(c) ==
  c.id \o PackU32(Len(c.data)) \o c.data \o (IF c.pad THEN <<0>> ELSE <<>>)

RECURSIVE RawChunks(_)
RawChunks(cs) ==
  IF cs = <<>> THEN <<>> ELSE RawChunk(Head(cs)) \o RawChunks(Tail(cs))

\* The bytes open(file, 'rb').read() returns.
FileBytes(f) ==
  LET body == RawChunks(f.chunks) \o f.tail
  IN  f.riff \o PackU32(4 + Len(body) + f.size_error) \o f.wave \o body

File(riff, wave, chunks, tail, size_error, sampwidth) ==
  [riff |-> riff, wave |-> wave, chunks |-> chunks, tail |-> tail,
   size_error |-> size_error, sampwidth |-> sampwidth]

Chunk(id, data, pad) == [id |-> id, data |-> data, pad |-> pad]

\* Identifiers that are not ASCII: both decode to U+FFFD 'a' 'b' 'c'.
XID1 == <<128, 97, 98, 99>>
XID2 == <<129, 97, 98, 99>>

RECURSIVE SeqsUpTo(_, _)
SeqsUpTo(S, n) ==
  IF n = 0 THEN {<<>>}
  ELSE LET shorter == SeqsUpTo(S, n - 1)
       IN  shorter \cup {Append(q, x) : q \in {r \in shorter : Len(r) = n - 1}, x \in S}

\* Files that exercise the sample arithmetic: a format chunk and a 'data'
\* chunk holding every byte string of up to MaxDataLen of these bytes.
SampleByteSet == {0, 127, 128, 255}

SampleFiles ==
  { File(RIFF, WAVE,
         <<Chunk(FMT, <<16, 0>>, FALSE), Chunk(DATA, d, Len(d) % 2 = 1)>>,
         <<>>, 0, w) :
      d \in SeqsUpTo(SampleByteSet, MaxDataLen), w \in {1, 2, 4} }

\* Files that exercise the container layout: up to MaxChunks chunks, with
\* and without pad bytes, repeated and non-ASCII identifiers, bytes left
\* over after the last chunk, and a declared size that may be wrong.
ChunkVariants ==
  { Chunk(FMT, <<16, 0>>, FALSE),
    Chunk(SMPL, <<1, 2, 3>>, TRUE),
    Chunk(SMPL, <<4, 5, 6>>, FALSE),
    Chunk(DATA, <<255, 127>>, FALSE),
    Chunk(DATA, <<200>>, TRUE),
    Chunk(XID1, <<7, 8>>, FALSE),
    Chunk(XID2, <<9>>, TRUE) }

Tails ==
  { <<>>,
    <<9, 9, 9>>,
    SMPL \o PackU32(6) \o <<1, 2>> }

LayoutFiles ==
  { File(RIFF, WAVE, cs, t, se, w) :
      cs \in SeqsUpTo(ChunkVariants, MaxChunks), t \in Tails,
      se \in {0, 4}, w \in {1, 3} }

\* Files of the batches of several files: two that can be processed and
\* one for each way a call of reduce_volume can end in an exception.
GoodChunks == <<Chunk(FMT, <<16, 0>>, FALSE), Chunk(DATA, <<255, 127>>, FALSE)>>

BatchFiles ==
  { File(RIFF, WAVE, GoodChunks, <<>>, 0, 2),
    File(RIFF, WAVE, GoodChunks, <<>>, 0, 1),
    File(<<82, 73, 70, 88>>, WAVE, GoodChunks, <<>>, 0, 2),
    File(<<255, 73, 70, 70>>, WAVE, GoodChunks, <<>>, 0, 2),
    File(RIFF, <<65, 86, 73, 32>>, GoodChunks, <<>>, 0, 2),
    File(RIFF, WAVE, <<Chunk(FMT, <<16, 0>>, FALSE)>>, <<>>, 0, 2),
    File(RIFF, WAVE, GoodChunks, <<>>, 0, 0),
    File(RIFF, WAVE, GoodChunks, <<>>, 0, 3),
    File(RIFF, WAVE,
         <<Chunk(FMT, <<16, 0>>, FALSE), Chunk(DATA, <<200>>, TRUE)>>, <<>>, 0, 2),
    File(RIFF, WAVE,
         <<Chunk(XID1, <<7, 8>>, FALSE), Chunk(DATA, <<255, 127>>, FALSE)>>,
         <<>>, 0, 2) }

\* What glob.glob may return: no file, one file of any kind, or up to
\* MaxFiles of the batch files.
Batches ==
  SeqsUpTo(BatchFiles, MaxFiles)
    \cup { <<f>> : f \in SampleFiles \cup LayoutFiles }

\* The dB amounts typed at the prompt, in steps of 20*log10(2) dB.
DbAmounts == 0..MaxDbSteps

(***************************************************************************)
(* process_wav_files_in_directory                                          *)
(***************************************************************************)
VARIABLES
  pc,          \* where process_wav_files_in_directory stands
  action,      \* the answer to the first prompt
  db_amount,   \* the dB amount, negated for "a"
  wav_files,   \* the files glob.glob returns
  idx,         \* the position of the for loop in wav_files
  results      \* results[i]: how reduce_volume on wav_files[i] ended

vars == <<pc, action, db_amount, wav_files, idx, results>>

Init ==
  /\ pc = "ask_action"
  /\ action = ""
  /\ db_amount = 0
  /\ wav_files \in Batches
  /\ idx = 1
  /\ results = <<>>

\* Lines 125-129: the first prompt; anything but r or a returns.
AskAction(a) ==
  /\ pc = "ask_action"
  /\ action' = a
  /\ pc' = IF a \in {"r", "a"} THEN "ask_db" ELSE "returned"
  /\ UNCHANGED <<db_amount, wav_files, idx, results>>

\* Lines 132-140: a number is typed; it is negated for "a".
AskDb(d) ==
  /\ pc = "ask_db"
  /\ db_amount' = IF action = "a" THEN -d ELSE d
  /\ pc' = "glob"
  /\ UNCHANGED <<action, wav_files, idx, results>>

\* Lines 134-136: float() raises ValueError on what was typed.
AskDbInvalid ==
  /\ pc = "ask_db"
  /\ pc' = "returned"
  /\ UNCHANGED <<action, db_amount, wav_files, idx, results>>

\* Lines 143-154: the output directory, the glob, and the return when no
\* file is found.
Glob ==
  /\ pc = "glob"
  /\ pc' = IF wav_files = <<>> THEN "returned" ELSE "loop"
  /\ UNCHANGED <<action, db_amount, wav_files, idx, results>>

\* Lines 157-163: one iteration of the for loop.  No exception is caught:
\* one raised by reduce_volume ends the program.
ProcessFile(ub) ==
  /\ pc = "loop"
  /\ idx <= Len(wav_files)
  /\ LET r == reduce_volume(FileBytes(wav_files[idx]), wav_files[idx].sampwidth,
                            db_amount, ub)
     IN  /\ results' = Append(results, r)
         /\ pc' = IF r.err # "none" THEN "crashed"
                  ELSE IF idx = Len(wav_files) THEN "done" ELSE "loop"
         /\ idx' = IF r.err # "none" THEN idx ELSE idx + 1
  /\ UNCHANGED <<action, db_amount, wav_files>>

Next ==
  \/ \E a \in {"r", "a", "x"} : AskAction(a)
  \/ \E d \in DbAmounts : AskDb(d)
  \/ AskDbInvalid
  \/ Glob
  \/ \E ub \in CastOutcomes : ProcessFile(ub)

Spec == Init /\ [][Next]_vars

(***************************************************************************)
(* The claims.                                                             *)
(***************************************************************************)
\* The files reduce_volume has been called on, the bytes of file i, and
\* what read_wav_chunks makes of them.
Processed == 1..Len(results)
Input(i) == FileBytes(wav_files[i])
Decoded(i) == read_wav_chunks(Input(i))
TagsValid(f) == f.riff = RIFF /\ f.wave = WAVE

\* write_wav_chunks' layout of a chunk set whose identifiers are ASCII.
RECURSIVE Layout(_)
Layout(chunks) ==
  IF chunks = <<>> THEN <<>>
  ELSE Head(chunks).id \o PackU32(Len(Head(chunks).data)) \o Head(chunks).data
       \o Layout(Tail(chunks))

\* Every odd payload of the file is followed by its pad byte, but for a
\* last chunk that ends the file.
Aligned(f) ==
  \A j \in 1..Len(f.chunks) :
    /\ f.chunks[j].pad => Len(f.chunks[j].data) % 2 = 1
    /\ (Len(f.chunks[j].data) % 2 = 1 /\ ~f.chunks[j].pad)
         => (j = Len(f.chunks) /\ f.tail = <<>>)

\* The chunks that lie whole in the file, keyed as a dict keys them: the
\* first place and the last payload of each decoded identifier.
RECURSIVE FullyRead(_, _)
FullyRead(cs, acc) ==
  IF cs = <<>> THEN acc
  ELSE FullyRead(Tail(cs),
                 SetItem(acc, DecodeAsciiReplace(Head(cs).id), Head(cs).data))

\* The samples of a payload in signed terms (width 1 is centred on 128).
Signed(b, w) ==
  [k \in 1..(Len(b) \div w) |->
     IF w = 1 THEN FromBuffer(b, w)[k] - 128 ELSE FromBuffer(b, w)[k]]

\* C1: for every input that decodes to a chunk set with a 'data' chunk and
\* has a supported sample width, reduce_volume writes every chunk other
\* than 'data' with the identifier and payload decoded from the input, in
\* the same order; only the 'data' payload may differ.
C1_OtherChunksWritten ==
  \A i \in Processed :
    (/\ Decoded(i).err = "none"
     /\ HasKey(Decoded(i).chunks, DATA)
     /\ wav_files[i].sampwidth \in {1, 2, 4})
    => /\ results[i].err = "none"
       /\ Slice(results[i].bytes, 12, Len(results[i].bytes))
            = Layout(SetItem(Decoded(i).chunks, DATA,
                             GetItem(results[i].chunks, DATA)))

\* C2: after "r" with a positive amount the factor applied by reduce_volume
\* is below 1, and after "a" with a positive amount it is above 1.
C2_ReduceAttenuates ==
  pc \in {"glob", "loop", "done", "crashed"}
  => /\ (action = "r" /\ db_amount > 0)
          => Less(volume_change_factor(db_amount), [m |-> 1, e |-> 0])
     /\ (action = "a" /\ -db_amount > 0)
          => Less([m |-> 1, e |-> 0], volume_change_factor(db_amount))

\* C3: for widths 1, 2 and 4 every output sample lies in the signed range
\* of the width, is the maximum when the scaled input is above the maximum
\* and the minimum when it is below the minimum.
C3_ClampedToRange ==
  \A i \in Processed :
    results[i].err = "none"
    => LET w == wav_files[i].sampwidth
           ins == Signed(GetItem(Decoded(i).chunks, DATA), w)
           outs == Signed(GetItem(results[i].chunks, DATA), w)
       IN  /\ Len(outs) = Len(ins)
           /\ \A k \in 1..Len(ins) :
                LET exact == Norm(ins[k], db_amount)
                IN  /\ outs[k] >= min_val(w) /\ outs[k] <= max_val(w)
                    /\ Less(Norm(max_val(w), 0), exact) => outs[k] = max_val(w)
                    /\ Less(exact, Norm(min_val(w), 0)) => outs[k] = min_val(w)

\* C4: with a gain of 0 dB the 'data' payload written is byte-identical to
\* the input's, for widths 1, 2 and 4 and every sample value.
C4_ZeroGainIdentity ==
  \A i \in Processed :
    (results[i].err = "none" /\ db_amount = 0)
    => GetItem(results[i].chunks, DATA) = GetItem(Decoded(i).chunks, DATA)

\* C5: the bytes write_wav_chunks produces decode, with read_wav_chunks, to
\* the chunks that were written, also when a chunk of odd length is
\* followed by another.
C5_OutputDecodable ==
  \A i \in Processed :
    results[i].err = "none"
    => /\ read_wav_chunks(results[i].bytes).err = "none"
       /\ read_wav_chunks(results[i].bytes).chunks = results[i].chunks

\* C6: chunks with arbitrary identifier bytes decode and encode without
\* error, and two chunks whose identifier bytes differ stay two chunks
\* after decode.
C6_OpaqueIdentifiers ==
  \A i \in Processed :
    (TagsValid(wav_files[i]) /\ Aligned(wav_files[i]))
    => /\ Len(Decoded(i).chunks)
            = Cardinality({wav_files[i].chunks[j].id :
                             j \in 1..Len(wav_files[i].chunks)})
       /\ results[i].opened => results[i].err = "none"

\* C7: a fatal error of one file is confined to it: when the program has
\* ended, every file of the batch that can be processed has been processed
\* and its output written.
C7_ErrorsConfined ==
  pc \in {"done", "crashed"}
  => \A i \in 1..Len(wav_files) :
       (\E ub \in CastOutcomes :
          reduce_volume(Input(i), wav_files[i].sampwidth, db_amount, ub).err = "none")
       => (i \in Processed /\ results[i].opened /\ results[i].err = "none")

\* C8: the size field at bytes 4..7 of every output written is the number
\* of output bytes minus 8.
C8_SizeFieldCorrect ==
  \A i \in Processed :
    results[i].err = "none"
    => UnpackU32(Slice(results[i].bytes, 4, 8)) = Len(results[i].bytes) - 8

\* C9: on a buffer with valid tags read_wav_chunks raises nothing, and when
\* fewer than 8 bytes remain for a header, or a header declares more than
\* remains, it returns exactly the chunks that lie whole before that
\* point; an odd last chunk with no pad byte decodes too.
C9_TruncationTolerated ==
  \A i \in Processed :
    TagsValid(wav_files[i])
    => /\ Decoded(i).err = "none"
       /\ results[i].err \notin {"UnicodeDecodeError", "NotRIFF", "NotWAVE"}
       /\ Aligned(wav_files[i])
            => /\ Decoded(i).chunks = FullyRead(wav_files[i].chunks, <<>>)
               /\ [j \in 1..Len(results[i].chunks) |-> results[i].chunks[j].id]
                    = [j \in 1..Len(Decoded(i).chunks) |-> Decoded(i).chunks[j].id]

\* A file whose last chunk header declares more bytes than remain, after
\* chunks that lie whole in it, has been processed.
C9_Witness ==
  \E i \in Processed :
    /\ TagsValid(wav_files[i]) /\ Aligned(wav_files[i])
    /\ Len(wav_files[i].tail) > 8
    /\ Len(wav_files[i].chunks) = 2
    /\ Len(Decoded(i).chunks) = 2

\* C10: a reported sample width other than 1, 2 or 4 makes reduce_volume
\* fail as unsupported, with the decoded chunks unmodified and no output
\* written; a missing 'data' chunk is reported first.
C10_UnsupportedWidth ==
  \A i \in Processed :
    (Decoded(i).err = "none" /\ wav_files[i].sampwidth \notin {0, 1, 2, 4})
    => /\ results[i].err = IF HasKey(Decoded(i).chunks, DATA)
                           THEN "UnsupportedWidth" ELSE "MissingData"
       /\ results[i].chunks = Decoded(i).chunks
       /\ ~results[i].opened
       /\ results[i].bytes = <<>>
       /\ pc = "crashed"

\* reduce_volume has failed on a file of width 3 that holds a 'data' chunk.
C10_Witness ==
  \E i \in Processed :
    /\ wav_files[i].sampwidth = 3
    /\ results[i].err = "UnsupportedWidth"
    /\ HasKey(results[i].chunks, DATA)
    /\ Len(results[i].chunks) = 2

====
